---- MODULE Spec2Model ----
(***************************************************************************)
(* A model of the uRustLogger crate (src/src/lib.rs): the Logger struct,   *)
(* its methods, the file it opens, the standard output it prints to, and   *)
(* the shared LOGGER mutex used by the log_print! macro.                   *)
(*                                                                         *)
(* Text is modelled as text: the buffer, the console stream and the        *)
(* content of every log file are strings, built with the same format       *)
(* strings as the code.  The wall clock is modelled at the granularity of  *)
(* one second (the granularity of the log file's name); the microsecond    *)
(* field of a timestamp is rendered as zeros.  The three glyphs the TLA+   *)
(* lexer cannot read are written by name: ESC for the byte 0x1b and        *)
(* U+xxxx for an icon's code points.                                       *)
(***************************************************************************)
EXTENDS Integers, Sequences, FiniteSets, TLC

VARIABLES
    \* ---- struct Logger (lib.rs 62-73)
    buffer,                 \* String
    current_level,          \* LogLevel
    console_threshold,      \* LogLevel
    file_threshold,         \* LogLevel
    file_logging_enabled,   \* bool
    use_colors,             \* bool
    include_date,           \* bool
    use_icons_in_file,      \* bool
    log_file,               \* Option<File>: an open handle is [path, pos, opened]
    log_file_path,          \* Option<String>
    \* ---- the process's environment
    clock,                  \* Local::now(), in seconds
    fs,                     \* the working directory: file name -> Option<content>
    console,                \* everything written to standard output
    \* ---- the shared LOGGER (lib.rs 181-183) and the threads using it
    lock_owner,             \* the thread holding the MutexGuard, or None
    pc,                     \* each thread's position inside its macro call
    todo,                   \* each thread's fragments still to be applied
    calls,                  \* each thread's number of macro calls started
    program,                \* each thread's macro calls, in the order it makes them
    poisoned,               \* the mutex's poison flag
    evals,                  \* per thread: the fragments whose $v was evaluated in its call
    order,                  \* the calls <<thread, number>> in the order they took the lock
    \* ---- observation of the run (not program state)
    last,                   \* the operation that made the last step, and what it did
    flushes,                \* the number of print() calls made so far
    prev,                   \* the file-logging session closed last: its path, content, second
    session,                \* the text written to the file since file logging was last off
    pending                 \* the set_level and append calls made since the last print()

logger == <<buffer, current_level, console_threshold, file_threshold,
            file_logging_enabled, use_colors, include_date, use_icons_in_file,
            log_file, log_file_path>>
env == <<clock, fs, console>>
threads == <<lock_owner, pc, todo, calls, program, poisoned, evals, order>>
obs == <<last, flushes, prev, session, pending>>
vars == <<logger, env, threads, obs>>

\* Option<T>: None is the empty sequence, Some(x) the sequence holding x.
None == <<>>
Some(x) == <<x>>

\* ------------------------------------------------------------------ bounds
MaxBuffer == 1      \* append is offered while the buffer is shorter than this
MaxFlushes == 1     \* print() calls offered in the gating scenarios
MaxClock == 1       \* the clock runs from second 0 to this second
MaxWrites == 2      \* flushes offered per file-logging scenario
MaxCalls == 2       \* log_print! calls of thread t1 (t2 makes two)
MaxFrags == 3       \* fragments appended to one record in the buffer scenarios

\* ------------------------------------------------------------------ LogLevel
LogLevel == {"Verbose", "Debug", "Info", "Warning", "Error", "Fatal", "Fixed"}

\* #[derive(PartialOrd)]: the variants compare by declaration order.
Discriminant(l) ==
    CASE l = "Verbose" -> 0
      [] l = "Debug"   -> 1
      [] l = "Info"    -> 2
      [] l = "Warning" -> 3
      [] l = "Error"   -> 4
      [] l = "Fatal"   -> 5
      [] l = "Fixed"   -> 6

Ge(a, b) == Discriminant(a) >= Discriminant(b)

\* impl Display for LogLevel
Label(l) ==
    CASE l = "Verbose" -> "VERBOSE"
      [] l = "Debug"   -> "  DEBUG"
      [] l = "Info"    -> "   INFO"
      [] l = "Warning" -> "WARNING"
      [] l = "Error"   -> "  ERROR"
      [] l = "Fatal"   -> "  FATAL"
      [] l = "Fixed"   -> "  FIXED"

color(l) ==
    CASE l = "Verbose" -> "ESC[90m"
      [] l = "Debug"   -> "ESC[96m"
      [] l = "Info"    -> "ESC[92m"
      [] l = "Warning" -> "ESC[93m"
      [] l = "Error"   -> "ESC[91m"
      [] l = "Fatal"   -> "ESC[95m"
      [] l = "Fixed"   -> "ESC[97m"

icon(l) ==
    CASE l = "Verbose" -> "U+1F4AC"
      [] l = "Debug"   -> "U+1F41E"
      [] l = "Info"    -> "U+2139U+FE0F"
      [] l = "Warning" -> "U+26A0U+FE0F"
      [] l = "Error"   -> "U+274C"
      [] l = "Fatal"   -> "U+1F480"
      [] l = "Fixed"   -> "U+2705"

\* ------------------------------------------------------------------ formatting
Pad2(n) == IF n < 10 THEN "0" \o ToString(n) ELSE ToString(n)

\* %H:%M:%S and %H%M%S of second c of the day
HMS(c, sep) == Pad2(c \div 3600) \o sep \o Pad2((c \div 60) % 60) \o sep \o Pad2(c % 60)

\* Logger::timestamp
timestamp(now) ==
    IF include_date
    THEN "2025-01-01 " \o HMS(now, ":") \o ".000000" \o " | "
    ELSE HMS(now, ":") \o ".000000" \o " | "

\* format!("log_{}.txt", now.format("%Y%m%d_%H%M%S"))
FileNameMutantFixed(now) == "log_" \o "20250101_" \o HMS(0, "") \o ".txt"
FileName(now) == "log_" \o "20250101_" \o HMS(now, "") \o ".txt"

FileNames == {FileName(c) : c \in 0..MaxClock}

HexDigit(d) == SubSeq("0123456789ABCDEF", d + 1, d + 1)

RECURSIVE UpperHex(_)
\* {:X}
UpperHex(n) == IF n < 16 THEN HexDigit(n) ELSE UpperHex(n \div 16) \o HexDigit(n % 16)

\* {} of a value: a string or a character is itself, an integer is decimal
Display(v) == IF DOMAIN v = {"int"} THEN ToString(v.int) ELSE v.str


\* ------------------------------------------------------------------ values
\* The gating scenarios append one string, take every record level and every
\* console threshold, and three of the file thresholds.
GateValues == {[str |-> "Hi"]}
GateFileThresholds == {"Verbose", "Warning", "Fixed"}

\* ------------------------------------------------------------------ observation
\* What the last step was: the operation; for print, the record level and the
\* buffer it saw and whether it wrote to the console and to a file; whether
\* file logging was enabled when the step started; how the step's file
\* operation went ("none" attempted, "ok", "failed"); and whether the
\* operation returned (ok) or panicked.
Obs(op, level, buf, con, fil, was, io, ok) ==
    [op |-> op, level |-> level, buf |-> buf, con |-> con, fil |-> fil,
     was_enabled |-> was, io |-> io, ok |-> ok]

Plain(op) == Obs(op, "Info", "", FALSE, FALSE, FALSE, "none", TRUE)

\* The calls made on the record in progress: the argument of the last
\* set_level (if any) and the append calls in order, as [op, arg].
NoPending == [level |-> None, frags |-> <<>>]
Leveled(level) == [pending EXCEPT !.level = Some(level)]
Appended(op, value) == [pending EXCEPT !.frags = Append(@, [op |-> op, arg |-> value])]

\* ------------------------------------------------------------------ Logger
\* Logger::new, and the process around it: second 0, an empty working
\* directory, nothing printed yet.
NewLogger ==
    /\ buffer = ""
    /\ current_level = "Info"
    /\ console_threshold = "Verbose"
    /\ file_threshold = "Verbose"
    /\ file_logging_enabled = FALSE
    /\ use_colors = TRUE
    /\ include_date = TRUE
    /\ use_icons_in_file = FALSE
    /\ log_file = None
    /\ log_file_path = None

NewProcess ==
    /\ clock = 0
    /\ fs = [n \in FileNames |-> None]
    /\ console = ""
    /\ last = Plain("new")
    /\ flushes = 0
    /\ prev = None
    /\ session = ""
    /\ pending = NoPending

\* Logger::append
appendMutantNoSpace(value) ==
    /\ buffer' = buffer \o Display(value)
    /\ last' = Plain("append")
    /\ pending' = Appended("append", value)
    /\ UNCHANGED <<current_level, console_threshold, file_threshold,
                   file_logging_enabled, use_colors, include_date, use_icons_in_file,
                   log_file, log_file_path, env, flushes, prev, session>>
append(value) ==
    /\ buffer' = buffer \o (Display(value) \o " ")
    /\ last' = Plain("append")
    /\ pending' = Appended("append", value)
    /\ UNCHANGED <<current_level, console_threshold, file_threshold,
                   file_logging_enabled, use_colors, include_date, use_icons_in_file,
                   log_file, log_file_path, env, flushes, prev, session>>

\* Logger::append_bool
append_bool(value) ==
    /\ buffer' = buffer \o (IF value THEN "true " ELSE "false ")
    /\ last' = Plain("append_bool")
    /\ pending' = Appended("append_bool", value)
    /\ UNCHANGED <<current_level, console_threshold, file_threshold,
                   file_logging_enabled, use_colors, include_date, use_icons_in_file,
                   log_file, log_file_path, env, flushes, prev, session>>

\* Logger::append_hex
append_hex(value) ==
    /\ buffer' = buffer \o ("0x" \o UpperHex(value) \o " ")
    /\ last' = Plain("append_hex")
    /\ pending' = Appended("append_hex", value)
    /\ UNCHANGED <<current_level, console_threshold, file_threshold,
                   file_logging_enabled, use_colors, include_date, use_icons_in_file,
                   log_file, log_file_path, env, flushes, prev, session>>

\* Logger::reset
resetMutantKeepsBuffer ==
    /\ buffer' = buffer
    /\ current_level' = "Info"
resetMutantKeepsLevel ==
    /\ buffer' = ""
    /\ current_level' = current_level
reset ==
    /\ buffer' = ""
    /\ current_level' = "Info"

\* Logger::set_level
set_level(level) ==
    /\ current_level' = level
    /\ last' = Plain("set_level")
    /\ pending' = Leveled(level)
    /\ UNCHANGED <<buffer, console_threshold, file_threshold,
                   file_logging_enabled, use_colors, include_date, use_icons_in_file,
                   log_file, log_file_path, env, flushes, prev, session>>

\* Logger::set_console_threshold
set_console_thresholdMutantBoth(level) ==
    /\ console_threshold' = level
    /\ file_threshold' = level
    /\ last' = Plain("set_console_threshold")
    /\ UNCHANGED <<buffer, current_level,
                   file_logging_enabled, use_colors, include_date, use_icons_in_file,
                   log_file, log_file_path, env, flushes, prev, session, pending>>

set_console_threshold(level) ==
    /\ console_threshold' = level
    /\ last' = Plain("set_console_threshold")
    /\ UNCHANGED <<buffer, current_level, file_threshold,
                   file_logging_enabled, use_colors, include_date, use_icons_in_file,
                   log_file, log_file_path, env, flushes, prev, session, pending>>

\* Logger::set_file_threshold
set_file_threshold(level) ==
    /\ file_threshold' = level
    /\ last' = Plain("set_file_threshold")
    /\ UNCHANGED <<buffer, current_level, console_threshold,
                   file_logging_enabled, use_colors, include_date, use_icons_in_file,
                   log_file, log_file_path, env, flushes, prev, session, pending>>

\* ------------------------------------------------------------------ files
\* File::write_all on a handle opened without append: the bytes go to the
\* handle's position, over what is there and past the end.
WriteAtMutantFront(content, pos, bytes) == bytes \o content
WriteAt(content, pos, bytes) ==
    LET end == pos + Len(bytes)
    IN  SubSeq(content, 1, pos) \o bytes \o
        (IF end < Len(content) THEN SubSeq(content, end + 1, Len(content)) ELSE "")

\* OpenOptions::new().create(true).write(true).open(name): a missing file is
\* created empty, an existing file keeps its content (no truncate, no append).
OpenCreateWrite(fsys, name) ==
    IF fsys[name] = None THEN [fsys EXCEPT ![name] = Some("")] ELSE fsys

\* ------------------------------------------------------------------ print
\* lib.rs 121: the console's gate
ConsoleGateMutantFileThreshold == Ge(current_level, file_threshold)
ConsoleGate == Ge(current_level, console_threshold)

\* lib.rs 131-132: the file's gate
FileGate == file_logging_enabled /\ log_file # None

\* lib.rs 122-127: what print! receives
ConsoleOutput(ts, level, text) ==
    LET msg == ts \o Label(level) \o " | " \o text \o "\n"
    IN  IF use_colors THEN color(level) \o msg \o "" \o "ESC[0m" ELSE msg

\* lib.rs 133-138: file_message
FileMessage(ts, level, text) ==
    LET level_repr == IF use_icons_in_file THEN icon(level) ELSE Label(level)
    IN  ts \o level_repr \o " | " \o text \o "\n"

\* Logger::print; wok: whether the file's write_all succeeds (its error is
\* dropped by `let _ =`; a failed write is modelled as writing nothing).
printMutantFailReturns(wok) ==
    LET ts == timestamp(clock)
        file_message == FileMessage(ts, current_level, buffer)
    IN  /\ console' = IF ConsoleGate
                      THEN console \o ConsoleOutput(ts, current_level, buffer)
                      ELSE console
        /\ IF FileGate /\ wok
           THEN /\ fs' = [fs EXCEPT ![log_file[1].path] =
                                  Some(WriteAt(@[1], log_file[1].pos, file_message))]
                /\ log_file' = Some([log_file[1] EXCEPT !.pos = @ + Len(file_message)])
                /\ session' = session \o file_message
           ELSE UNCHANGED <<fs, log_file, session>>
        /\ IF FileGate /\ ~wok THEN UNCHANGED <<buffer, current_level>> ELSE reset
        /\ last' = Obs("print", current_level, buffer, console' # console, fs' # fs,
                       file_logging_enabled,
                       IF ~FileGate THEN "none" ELSE IF wok THEN "ok" ELSE "failed", TRUE)
        /\ flushes' = flushes + 1
        /\ pending' = NoPending
        /\ UNCHANGED <<console_threshold, file_threshold, file_logging_enabled,
                       use_colors, include_date, use_icons_in_file, log_file_path,
                       clock, prev>>

print(wok) ==
    LET ts == timestamp(clock)
        file_message == FileMessage(ts, current_level, buffer)
    IN  /\ console' = IF ConsoleGate
                      THEN console \o ConsoleOutput(ts, current_level, buffer)
                      ELSE console
        /\ IF FileGate /\ wok
           THEN /\ fs' = [fs EXCEPT ![log_file[1].path] =
                                  Some(WriteAt(@[1], log_file[1].pos, file_message))]
                /\ log_file' = Some([log_file[1] EXCEPT !.pos = @ + Len(file_message)])
                /\ session' = session \o file_message
           ELSE UNCHANGED <<fs, log_file, session>>
        /\ reset
        /\ last' = Obs("print", current_level, buffer, console' # console, fs' # fs,
                       file_logging_enabled,
                       IF ~FileGate THEN "none" ELSE IF wok THEN "ok" ELSE "failed", TRUE)
        /\ flushes' = flushes + 1
        /\ pending' = NoPending
        /\ UNCHANGED <<console_threshold, file_threshold, file_logging_enabled,
                       use_colors, include_date, use_icons_in_file, log_file_path,
                       clock, prev>>


\* ------------------------------------------------------------------ file sink
\* Logger::enable_file_logging; ok: whether open() succeeds.  open(..).unwrap()
\* panics before the assignment of line 161 takes place.
enable_file_loggingMutantNoGuard(ok) ==
    LET filename == FileName(clock)
    IN  IF ok
        THEN /\ fs' = OpenCreateWrite(fs, filename)
             /\ log_file' = Some([path |-> filename, pos |-> 0, opened |-> clock])
             /\ log_file_path' = Some(filename)
             /\ file_logging_enabled' = TRUE
             /\ session' = IF file_logging_enabled THEN session ELSE ""
             /\ last' = Obs("enable_file_logging", "Info", "", FALSE, FALSE,
                            file_logging_enabled, "ok", TRUE)
             /\ UNCHANGED <<buffer, current_level, console_threshold, file_threshold,
                            use_colors, include_date, use_icons_in_file,
                            clock, console, flushes, prev, pending>>
        ELSE /\ last' = Obs("enable_file_logging", "Info", "", FALSE, FALSE,
                            file_logging_enabled, "failed", FALSE)
             /\ UNCHANGED <<logger, env, flushes, prev, session, pending>>

enable_file_loggingMutantFlagFirst(ok) ==
    IF ~file_logging_enabled
    THEN LET filename == FileName(clock)
         IN  IF ok
             THEN /\ fs' = OpenCreateWrite(fs, filename)
                  /\ log_file' = Some([path |-> filename, pos |-> 0, opened |-> clock])
                  /\ log_file_path' = Some(filename)
                  /\ file_logging_enabled' = TRUE
                  /\ session' = ""
                  /\ last' = Obs("enable_file_logging", "Info", "", FALSE, FALSE,
                                 FALSE, "ok", TRUE)
                  /\ UNCHANGED <<buffer, current_level, console_threshold, file_threshold,
                                 use_colors, include_date, use_icons_in_file,
                                 clock, console, flushes, prev, pending>>
             ELSE /\ file_logging_enabled' = TRUE
                  /\ last' = Obs("enable_file_logging", "Info", "", FALSE, FALSE,
                                 FALSE, "failed", FALSE)
                  /\ UNCHANGED <<buffer, current_level, console_threshold, file_threshold,
                                 use_colors, include_date, use_icons_in_file,
                                 log_file, log_file_path, env, flushes, prev, session, pending>>
    ELSE /\ last' = Obs("enable_file_logging", "Info", "", FALSE, FALSE,
                        TRUE, "none", TRUE)
         /\ UNCHANGED <<logger, env, flushes, prev, session, pending>>

enable_file_logging(ok) ==
    IF ~file_logging_enabled
    THEN LET filename == FileName(clock)
         IN  IF ok
             THEN /\ fs' = OpenCreateWrite(fs, filename)
                  /\ log_file' = Some([path |-> filename, pos |-> 0, opened |-> clock])
                  /\ log_file_path' = Some(filename)
                  /\ file_logging_enabled' = TRUE
                  /\ session' = ""
                  /\ last' = Obs("enable_file_logging", "Info", "", FALSE, FALSE,
                                 FALSE, "ok", TRUE)
                  /\ UNCHANGED <<buffer, current_level, console_threshold, file_threshold,
                                 use_colors, include_date, use_icons_in_file,
                                 clock, console, flushes, prev, pending>>
             ELSE /\ last' = Obs("enable_file_logging", "Info", "", FALSE, FALSE,
                                 FALSE, "failed", FALSE)
                  /\ UNCHANGED <<logger, env, flushes, prev, session, pending>>
    ELSE /\ last' = Obs("enable_file_logging", "Info", "", FALSE, FALSE,
                        TRUE, "none", TRUE)
         /\ UNCHANGED <<logger, env, flushes, prev, session, pending>>

\* Logger::disable_file_logging; dropping the File closes it.
disable_file_loggingMutantKeepsHandle ==
    /\ log_file' = log_file
    /\ file_logging_enabled' = FALSE
    /\ log_file_path' = None
    /\ last' = Obs("disable_file_logging", "Info", "", FALSE, FALSE,
                   file_logging_enabled, "none", TRUE)
    /\ prev' = prev
    /\ UNCHANGED <<buffer, current_level, console_threshold, file_threshold,
                   use_colors, include_date, use_icons_in_file, env, flushes, session, pending>>

disable_file_loggingMutantKeepsFlag ==
    /\ log_file' = None
    /\ file_logging_enabled' = file_logging_enabled
    /\ log_file_path' = None
    /\ last' = Obs("disable_file_logging", "Info", "", FALSE, FALSE,
                   file_logging_enabled, "none", TRUE)
    /\ prev' = prev
    /\ UNCHANGED <<buffer, current_level, console_threshold, file_threshold,
                   use_colors, include_date, use_icons_in_file, env, flushes, session, pending>>

disable_file_logging ==
    /\ log_file' = None
    /\ file_logging_enabled' = FALSE
    /\ log_file_path' = None
    /\ last' = Obs("disable_file_logging", "Info", "", FALSE, FALSE,
                   file_logging_enabled, "none", TRUE)
    /\ prev' = IF log_file # None
               THEN Some([path |-> log_file[1].path,
                          content |-> fs[log_file[1].path][1],
                          opened |-> log_file[1].opened])
               ELSE prev
    /\ UNCHANGED <<buffer, current_level, console_threshold, file_threshold,
                   use_colors, include_date, use_icons_in_file, env, flushes, session, pending>>

\* Local::now() moves on to the next second.
Tick ==
    /\ clock < MaxClock
    /\ clock' = clock + 1
    /\ last' = Plain("tick")
    /\ UNCHANGED <<logger, fs, console, threads, flushes, prev, session, pending>>

\* ------------------------------------------------------------------ one owner
\* A Logger used by one owner, method by method (as the tests do under the
\* guard).  The gating scenarios: every record level against every console
\* threshold, with file logging off and on.
\* No thread has started: the mutex is free and not poisoned.
NoCallYet ==
    /\ lock_owner = None
    /\ poisoned = FALSE
    /\ pc = [t \in DOMAIN program |-> "idle"]
    /\ todo = [t \in DOMAIN program |-> <<>>]
    /\ calls = [t \in DOMAIN program |-> 0]
    /\ evals = [t \in DOMAIN program |-> <<>>]
    /\ order = <<>>

Init ==
    /\ NewLogger
    /\ NewProcess
    /\ program = <<>>
    /\ NoCallYet

AppendCall == \E v \in GateValues :
    Len(buffer) < MaxBuffer /\ append(v) /\ UNCHANGED threads
SetLevelCall == \E l \in LogLevel : set_level(l) /\ UNCHANGED threads
SetConsoleThresholdCall == \E l \in LogLevel : set_console_threshold(l) /\ UNCHANGED threads
SetFileThresholdCall == \E l \in GateFileThresholds : set_file_threshold(l) /\ UNCHANGED threads
PrintCall == flushes < MaxFlushes /\ print(TRUE) /\ UNCHANGED threads
EnableFileLoggingCall == \E ok \in BOOLEAN : enable_file_logging(ok) /\ UNCHANGED threads

Next ==
    \/ AppendCall
    \/ SetLevelCall
    \/ SetConsoleThresholdCall
    \/ SetFileThresholdCall
    \/ PrintCall
    \/ EnableFileLoggingCall

Spec == Init /\ [][Next]_vars


\* ------------------------------------------------------------------ file sink scenarios
\* One owner again, now through the file sink's whole life: enable, flush,
\* disable, the clock moving on, enable again.  The console is kept quiet
\* (its threshold is Fixed or Fatal, the records are Info or Error) so that the
\* scenarios differ in the files alone.
SinkLevels == {"Error"}
SinkConsoleThresholds == {"Fatal"}
SinkFileThresholds == {"Warning"}
SinkValues == {[int |-> 42]}

InitSink ==
    /\ buffer = ""
    /\ current_level = "Info"
    /\ console_threshold = "Fixed"          \* after set_console_threshold(Fixed)
    /\ file_threshold = "Verbose"
    /\ file_logging_enabled = FALSE
    /\ use_colors = TRUE
    /\ include_date = TRUE
    /\ use_icons_in_file = FALSE
    /\ log_file = None
    /\ log_file_path = None
    /\ NewProcess
    /\ program = <<>>
    /\ NoCallYet

SinkAppend == \E v \in SinkValues :
    Len(buffer) < MaxBuffer /\ append(v) /\ UNCHANGED threads
SinkSetLevel == \E l \in SinkLevels : set_level(l) /\ UNCHANGED threads
SinkSetConsoleThreshold == \E l \in SinkConsoleThresholds :
    set_console_threshold(l) /\ UNCHANGED threads
SinkSetFileThreshold == \E l \in SinkFileThresholds :
    set_file_threshold(l) /\ UNCHANGED threads
SinkFlush == \E wok \in BOOLEAN : flushes < MaxWrites /\ print(wok) /\ UNCHANGED threads
SinkEnable == \E ok \in BOOLEAN : enable_file_logging(ok) /\ UNCHANGED threads
SinkDisable == disable_file_logging /\ UNCHANGED threads

NextSink ==
    \/ SinkAppend
    \/ SinkSetLevel
    \/ SinkSetConsoleThreshold
    \/ SinkSetFileThreshold
    \/ SinkFlush
    \/ SinkEnable
    \/ SinkDisable
    \/ Tick

SpecSink == InitSink /\ [][NextSink]_vars


\* ------------------------------------------------------------------ threads
\* Threads sharing LOGGER.  program[t] is the sequence of macro calls thread t
\* makes, one after the other; a call is [macro |-> "log_print", level, frags],
\* [macro |-> "log_init", console, file, enable_file, colors, date, icons] or
\* [macro |-> "log_deinit"].  One action per statement of a macro's expansion;
\* the guard `logger` lives from the lock() to the end of the block.
Threads == {"t1", "t2"}

\* What each thread logs in its n-th call: t1 a string and the i32 n at
\* Warning, t2 a bool and the hex u8 0xA0 + n at Error.
CallLevel(t) == IF t = "t1" THEN "Warning" ELSE "Error"
CallFragments(t, n) ==
    IF t = "t1"
    THEN <<[macro |-> "log_str", str |-> "A"], [macro |-> "log_i32", int |-> n]>>
    ELSE <<[macro |-> "log_bool", bool |-> TRUE], [macro |-> "log_hex8", hex |-> 160 + n]>>
ThreadCall(t, n) ==
    [macro |-> "log_print", level |-> CallLevel(t), frags |-> CallFragments(t, n)]

\* The fragment macros that declare fn _f(_: T) {} and call _f($v) before
\* building the closure.
WidthCheckedMutantNone == {}
WidthChecked ==
    {"log_hex8", "log_hex16", "log_hex32", "log_hex64",
     "log_i8", "log_i16", "log_i32", "log_i64",
     "log_u8", "log_u16", "log_u32", "log_u64",
     "log_f32", "log_f64"}

\* What evaluating a fragment's value expression does: it yields the value,
\* it panics, or it makes a log_print! call of its own.
Expr(f) == IF "expr" \in DOMAIN f THEN f.expr ELSE "value"

\* The closure a fragment macro builds, applied to the locked logger:
\* log_str!/log_i32! call append, log_bool! append_bool, log_hex8! append_hex.
ApplyFragment(f) ==
    CASE f.macro = "log_str"  -> append([str |-> f.str])
      [] f.macro = "log_i32"  -> append([int |-> f.int])
      [] f.macro = "log_bool" -> append_bool(f.bool)
      [] f.macro = "log_hex8" -> append_hex(f.hex)

\* The call thread t is in, the call it makes next, and the index of the
\* fragment at the head of todo[t].
Job(t) == program[t][calls[t]]
NextJob(t) == program[t][calls[t] + 1]
FragmentIndex(t) == Len(Job(t).frags) - Len(todo[t]) + 1

\* The first statement after the lock() of each macro.
FirstStep(call) ==
    CASE call.macro = "log_print"  -> "set_level"
      [] call.macro = "log_init"   -> "init_console"
      [] call.macro = "log_deinit" -> "deinit"

\* The shared logger after log_init!(console, Verbose, enable_file, true,
\* true, true) at second 0, before any thread logs.  t1 makes MaxCalls calls
\* and t2 two.
InitThreads ==
    /\ buffer = ""
    /\ current_level = "Info"
    /\ console_threshold \in {"Verbose", "Error"}
    /\ file_threshold = "Verbose"
    /\ file_logging_enabled \in BOOLEAN
    /\ use_colors = TRUE
    /\ include_date = TRUE
    /\ use_icons_in_file = TRUE
    /\ log_file = IF file_logging_enabled
                  THEN Some([path |-> FileName(0), pos |-> 0, opened |-> 0])
                  ELSE None
    /\ log_file_path = IF file_logging_enabled THEN Some(FileName(0)) ELSE None
    /\ clock = 0
    /\ fs = [n \in FileNames |->
                IF file_logging_enabled /\ n = FileName(0) THEN Some("") ELSE None]
    /\ console = ""
    /\ last = Plain("log_init")
    /\ flushes = 0
    /\ prev = None
    /\ session = ""
    /\ pending = NoPending
    /\ program = [t \in Threads |->
                     [n \in 1..(IF t = "t1" THEN MaxCalls ELSE 2) |-> ThreadCall(t, n)]]
    /\ NoCallYet

\* Mutex::lock returns once no other guard is alive.
LockFreeMutantAlways == TRUE
LockFree == lock_owner = None

\* let mut logger = LOGGER.lock().unwrap(); on a mutex that is not poisoned
LockMutantIgnoresPoison(t) ==
    /\ pc[t] = "idle"
    /\ calls[t] < Len(program[t])
    /\ LockFree
    /\ lock_owner' = Some(t)
    /\ pc' = [pc EXCEPT ![t] = FirstStep(NextJob(t))]
    /\ todo' = [todo EXCEPT ![t] =
                    IF NextJob(t).macro = "log_print" THEN NextJob(t).frags ELSE <<>>]
    /\ calls' = [calls EXCEPT ![t] = @ + 1]
    /\ evals' = [evals EXCEPT ![t] = <<>>]
    /\ order' = Append(order, <<t, calls[t] + 1>>)
    /\ last' = Plain("lock")
    /\ UNCHANGED <<logger, env, program, poisoned, flushes, prev, session, pending>>

Lock(t) ==
    /\ pc[t] = "idle"
    /\ calls[t] < Len(program[t])
    /\ LockFree
    /\ ~poisoned
    /\ lock_owner' = Some(t)
    /\ pc' = [pc EXCEPT ![t] = FirstStep(NextJob(t))]
    /\ todo' = [todo EXCEPT ![t] =
                    IF NextJob(t).macro = "log_print" THEN NextJob(t).frags ELSE <<>>]
    /\ calls' = [calls EXCEPT ![t] = @ + 1]
    /\ evals' = [evals EXCEPT ![t] = <<>>]
    /\ order' = Append(order, <<t, calls[t] + 1>>)
    /\ last' = Plain("lock")
    /\ UNCHANGED <<logger, env, program, poisoned, flushes, prev, session, pending>>

\* logger.set_level($level);
SetLevelStep(t) ==
    /\ pc[t] = "set_level"
    /\ set_level(Job(t).level)
    /\ pc' = [pc EXCEPT ![t] = "fragments"]
    /\ UNCHANGED <<lock_owner, poisoned, program, todo, calls, evals, order>>

\* _f($v); of a width-checked fragment macro: the first evaluation of $v
CheckStep(t) ==
    /\ pc[t] = "fragments"
    /\ todo[t] # <<>>
    /\ Head(todo[t]).macro \in WidthChecked
    /\ Expr(Head(todo[t])) = "value"
    /\ pc' = [pc EXCEPT ![t] = "closure"]
    /\ evals' = [evals EXCEPT ![t] = Append(@, FragmentIndex(t))]
    /\ last' = Plain("check")
    /\ UNCHANGED <<logger, env, lock_owner, poisoned, program, todo, calls, order,
                   flushes, prev, session, pending>>

\* $val(&mut logger); the closure evaluates $v and appends it
FragmentStep(t) ==
    /\ \/ pc[t] = "closure"
       \/ pc[t] = "fragments" /\ todo[t] # <<>> /\ Head(todo[t]).macro \notin WidthChecked
    /\ Expr(Head(todo[t])) = "value"
    /\ ApplyFragment(Head(todo[t]))
    /\ pc' = [pc EXCEPT ![t] = "fragments"]
    /\ todo' = [todo EXCEPT ![t] = Tail(@)]
    /\ evals' = [evals EXCEPT ![t] = Append(@, FragmentIndex(t))]
    /\ UNCHANGED <<lock_owner, poisoned, program, calls, order>>

\* logger.print();
FlushStepMutantSkipsPrint(t) ==
    /\ pc[t] = "fragments"
    /\ todo[t] = <<>>
    /\ pc' = [pc EXCEPT ![t] = "unlock"]
    /\ last' = Plain("print")
    /\ UNCHANGED <<logger, env, flushes, prev, session, pending,
                   lock_owner, poisoned, program, todo, calls, evals, order>>
FlushStep(t) ==
    /\ pc[t] = "fragments"
    /\ todo[t] = <<>>
    /\ \E wok \in BOOLEAN : print(wok)
    /\ pc' = [pc EXCEPT ![t] = "unlock"]
    /\ UNCHANGED <<lock_owner, poisoned, program, todo, calls, evals, order>>

\* the guard is dropped at the end of the block
Unlock(t) ==
    /\ pc[t] = "unlock"
    /\ lock_owner' = None
    /\ pc' = [pc EXCEPT ![t] = "idle"]
    /\ last' = Plain("unlock")
    /\ UNCHANGED <<logger, env, poisoned, program, todo, calls, evals, order,
                   flushes, prev, session, pending>>

\* ------------------------------------------------------------------ log_init!, log_deinit!, panics
\* logger.set_console_threshold($console);
InitConsoleStep(t) ==
    /\ pc[t] = "init_console"
    /\ set_console_threshold(Job(t).console)
    /\ pc' = [pc EXCEPT ![t] = "init_file"]
    /\ UNCHANGED <<lock_owner, poisoned, program, todo, calls, evals, order>>

\* logger.set_file_threshold($file);
InitFileStep(t) ==
    /\ pc[t] = "init_file"
    /\ set_file_threshold(Job(t).file)
    /\ pc' = [pc EXCEPT ![t] = "init_flags"]
    /\ UNCHANGED <<lock_owner, poisoned, program, todo, calls, evals, order>>

\* logger.use_colors = ..; logger.include_date = ..; logger.use_icons_in_file = ..;
InitFlagsStep(t) ==
    /\ pc[t] = "init_flags"
    /\ use_colors' = Job(t).colors
    /\ include_date' = Job(t).date
    /\ use_icons_in_file' = Job(t).icons
    /\ last' = Plain("flags")
    /\ pc' = [pc EXCEPT ![t] = "init_sink"]
    /\ UNCHANGED <<buffer, current_level, console_threshold, file_threshold,
                   file_logging_enabled, log_file, log_file_path, env,
                   flushes, prev, session, pending,
                   lock_owner, poisoned, program, todo, calls, evals, order>>

\* A panic in the thread holding the guard: unwinding drops the guard, which
\* poisons the mutex and releases it; the call is over.
Unwinding(t) ==
    /\ lock_owner' = None
    /\ poisoned' = TRUE
    /\ pc' = [pc EXCEPT ![t] = "idle"]
    /\ todo' = [todo EXCEPT ![t] = <<>>]

\* if $enable_file { logger.enable_file_logging(); } else { logger.disable_file_logging(); }
InitSinkStepMutantNeverDisables(t) ==
    /\ pc[t] = "init_sink"
    /\ \E ok \in BOOLEAN : enable_file_logging(ok \/ ~Job(t).enable_file)
    /\ IF last'.ok
       THEN pc' = [pc EXCEPT ![t] = "unlock"] /\ UNCHANGED <<lock_owner, poisoned, todo>>
       ELSE Unwinding(t)
    /\ UNCHANGED <<program, calls, evals, order>>

InitSinkStep(t) ==
    /\ pc[t] = "init_sink"
    /\ IF Job(t).enable_file
       THEN \E ok \in BOOLEAN : enable_file_logging(ok)
       ELSE disable_file_logging
    /\ IF last'.ok
       THEN pc' = [pc EXCEPT ![t] = "unlock"] /\ UNCHANGED <<lock_owner, poisoned, todo>>
       ELSE Unwinding(t)
    /\ UNCHANGED <<program, calls, evals, order>>

\* log_deinit!: logger.disable_file_logging();
DeinitStep(t) ==
    /\ pc[t] = "deinit"
    /\ disable_file_logging
    /\ pc' = [pc EXCEPT ![t] = "unlock"]
    /\ UNCHANGED <<lock_owner, poisoned, program, todo, calls, evals, order>>

\* the value expression of a fragment panics when it is first evaluated
FragmentPanic(t) ==
    /\ pc[t] = "fragments"
    /\ todo[t] # <<>>
    /\ Expr(Head(todo[t])) = "panic"
    /\ evals' = [evals EXCEPT ![t] = Append(@, FragmentIndex(t))]
    /\ Unwinding(t)
    /\ last' = Obs("panic", "Info", "", FALSE, FALSE, FALSE, "none", FALSE)
    /\ UNCHANGED <<logger, env, program, calls, order, flushes, prev, session, pending>>

\* LOGGER.lock().unwrap() on a poisoned mutex: lock() returns Err once the
\* mutex is free, unwrap() panics and the guard inside the error is dropped.
LockPoisoned(t) ==
    /\ pc[t] = "idle"
    /\ calls[t] < Len(program[t])
    /\ LockFree
    /\ poisoned
    /\ calls' = [calls EXCEPT ![t] = @ + 1]
    /\ last' = Obs("lock", "Info", "", FALSE, FALSE, FALSE, "none", FALSE)
    /\ UNCHANGED <<logger, env, lock_owner, pc, todo, program, poisoned, evals, order,
                   flushes, prev, session, pending>>

\* The macro calls of the scenarios: main.rs's log_init! with the sink on, a
\* second configuration with the sink off, log_deinit!, and a log_print!
\* whose second fragment panics (an out-of-range index, a failed unwrap).
InitOn ==
    [macro |-> "log_init", console |-> "Error", file |-> "Warning",
     enable_file |-> TRUE, colors |-> FALSE, date |-> FALSE, icons |-> TRUE]
InitOff ==
    [macro |-> "log_init", console |-> "Debug", file |-> "Debug",
     enable_file |-> FALSE, colors |-> TRUE, date |-> TRUE, icons |-> FALSE]
Deinit == [macro |-> "log_deinit"]
PanickingCall ==
    [macro |-> "log_print", level |-> "Fatal",
     frags |-> <<[macro |-> "log_str", str |-> "B"],
                 [macro |-> "log_i32", int |-> 0, expr |-> "panic"]>>]
FatalCall(t, n) ==
    [macro |-> "log_print", level |-> "Fatal", frags |-> CallFragments(t, n)]

MacroPrograms1 == {<<InitOn, ThreadCall("t1", 1), InitOn>>,
                   <<InitOff, ThreadCall("t1", 1), Deinit>>}
MacroPrograms2 == {<<FatalCall("t2", 1), Deinit, FatalCall("t2", 2)>>,
                   <<InitOn, PanickingCall, FatalCall("t2", 2)>>}

InitMacros ==
    /\ NewLogger
    /\ NewProcess
    /\ program \in {[t \in Threads |-> IF t = "t1" THEN p1 ELSE p2] :
                        p1 \in MacroPrograms1, p2 \in MacroPrograms2}
    /\ NoCallYet

NextMacros ==
    \/ \E t \in Threads : Lock(t)
    \/ \E t \in Threads : LockPoisoned(t)
    \/ \E t \in Threads : SetLevelStep(t)
    \/ \E t \in Threads : CheckStep(t)
    \/ \E t \in Threads : FragmentStep(t)
    \/ \E t \in Threads : FragmentPanic(t)
    \/ \E t \in Threads : FlushStep(t)
    \/ \E t \in Threads : InitConsoleStep(t)
    \/ \E t \in Threads : InitFileStep(t)
    \/ \E t \in Threads : InitFlagsStep(t)
    \/ \E t \in Threads : InitSinkStep(t)
    \/ \E t \in Threads : DeinitStep(t)
    \/ \E t \in Threads : Unlock(t)

SpecMacros == InitMacros /\ [][NextMacros]_vars

\* ------------------------------------------------------------------ log_print! alone
NextThreads ==
    \/ \E t \in Threads : Lock(t)
    \/ \E t \in Threads : SetLevelStep(t)
    \/ \E t \in Threads : CheckStep(t)
    \/ \E t \in Threads : FragmentStep(t)
    \/ \E t \in Threads : FlushStep(t)
    \/ \E t \in Threads : Unlock(t)
    \/ Tick

SpecThreads == InitThreads /\ [][NextThreads]_vars


\* ------------------------------------------------------------------ buffer scenarios
\* One owner building records fragment by fragment, as tests::test_basic_logging
\* does ("Hello", 42, true): the three append methods in every order, then
\* print() to the console.
BufValues == {[str |-> "Hello"], [int |-> 42]}
BufHexValues == {48879}

BufAppend == \E v \in BufValues :
    /\ flushes < MaxFlushes /\ Len(pending.frags) < MaxFrags
    /\ append(v) /\ UNCHANGED threads
BufAppendBool == \E b \in BOOLEAN :
    /\ flushes < MaxFlushes /\ Len(pending.frags) < MaxFrags
    /\ append_bool(b) /\ UNCHANGED threads
BufAppendHex == \E x \in BufHexValues :
    /\ flushes < MaxFlushes /\ Len(pending.frags) < MaxFrags
    /\ append_hex(x) /\ UNCHANGED threads
BufFlush == flushes < MaxFlushes /\ print(TRUE) /\ UNCHANGED threads

NextBuffer ==
    \/ BufAppend
    \/ BufAppendBool
    \/ BufAppendHex
    \/ BufFlush

SpecBuffer == Init /\ [][NextBuffer]_vars


\* ------------------------------------------------------------------ a logging call inside a fragment
\* The value expression of a fragment makes a log_print! call of its own, as
\* in log_print!(Info, log_str!("A"), log_i32!({ log_print!(Debug, log_str!("x")); 1 })).
\* The inner call's LOGGER.lock() runs in the thread that holds the guard.
\* std::sync::Mutex leaves that unspecified but never returns from it: the
\* thread blocks for good, or lock() panics and the outer guard is dropped
\* during unwinding.
NestedCall(t) ==
    /\ pc[t] = "fragments"
    /\ todo[t] # <<>>
    /\ Expr(Head(todo[t])) = "nested"
    /\ evals' = [evals EXCEPT ![t] = Append(@, FragmentIndex(t))]
    /\ \/ /\ pc' = [pc EXCEPT ![t] = "relock"]
          /\ last' = Plain("relock")
          /\ UNCHANGED <<lock_owner, poisoned, todo>>
       \/ /\ Unwinding(t)
          /\ last' = Obs("panic", "Info", "", FALSE, FALSE, FALSE, "none", FALSE)
    /\ UNCHANGED <<logger, env, program, calls, order, flushes, prev, session, pending>>

NestingCall ==
    [macro |-> "log_print", level |-> "Info",
     frags |-> <<[macro |-> "log_str", str |-> "A"],
                 [macro |-> "log_i32", int |-> 1, expr |-> "nested"]>>]

\* t1 logs once plainly and then with the nested call; t2 calls log_init!,
\* logs plainly and calls log_deinit!.
InitNested ==
    /\ NewLogger
    /\ NewProcess
    /\ program = [t \in Threads |->
                     IF t = "t1"
                     THEN <<ThreadCall(t, 1), NestingCall>>
                     ELSE <<InitOff, ThreadCall(t, 1), Deinit>>]
    /\ NoCallYet

NextNested ==
    \/ \E t \in Threads : Lock(t)
    \/ \E t \in Threads : LockPoisoned(t)
    \/ \E t \in Threads : SetLevelStep(t)
    \/ \E t \in Threads : CheckStep(t)
    \/ \E t \in Threads : FragmentStep(t)
    \/ \E t \in Threads : NestedCall(t)
    \/ \E t \in Threads : FlushStep(t)
    \/ \E t \in Threads : InitConsoleStep(t)
    \/ \E t \in Threads : InitFileStep(t)
    \/ \E t \in Threads : InitFlagsStep(t)
    \/ \E t \in Threads : InitSinkStep(t)
    \/ \E t \in Threads : DeinitStep(t)
    \/ \E t \in Threads : Unlock(t)

\* Fair scheduling: a thread that can take a step of its call takes it, and
\* a thread waiting for the lock gets it if the lock is free again and again.
FairScheduling ==
    \A t \in Threads :
        /\ WF_vars(SetLevelStep(t) \/ CheckStep(t) \/ FragmentStep(t) \/ NestedCall(t)
                      \/ FlushStep(t) \/ InitConsoleStep(t) \/ InitFileStep(t)
                      \/ InitFlagsStep(t) \/ InitSinkStep(t) \/ DeinitStep(t) \/ Unlock(t))
        /\ SF_vars(Lock(t) \/ LockPoisoned(t))

SpecNested == InitNested /\ [][NextNested]_vars /\ FairScheduling

\* ------------------------------------------------------------------ properties
\* The severity order as the specification states it:
\* Verbose < Debug < Info < Warning < Error < Fatal < Fixed.
StatedOrder == <<"Verbose", "Debug", "Info", "Warning", "Error", "Fatal", "Fixed">>
Rank(l) == CHOOSE i \in 1..Len(StatedOrder) : StatedOrder[i] = l
AtLeast(l, t) == Rank(l) >= Rank(t)

Flushed == last.op = "print"
Opened == last.op = "enable_file_logging" /\ ~last.was_enabled /\ last.ok
\* The sink's state: the flag, which file the handle has open (a write moves
\* the handle's position, not the handle), and the path.
OpenPath == IF log_file = None THEN None ELSE Some(log_file[1].path)
SinkFields == <<file_logging_enabled, OpenPath, log_file_path>>

\* C1: immediately after print() the buffer is empty and the level is Info,
\* whatever the thresholds, the file-enabled flag and the record's level were,
\* also when neither sink accepted the record.
C1_FlushResets == Flushed => (buffer = "" /\ current_level = "Info")

\* C1's case: a flush of a non-empty Verbose record that neither sink accepted.
C1_Witness ==
    /\ Flushed
    /\ last.buf # "" /\ last.level = "Verbose"
    /\ ~last.con /\ ~last.fil

\* C3: print() writes to the console if and only if the record's level is at
\* least the console threshold in the stated order, whatever the file-enabled
\* flag and the file threshold are.
C3_ConsoleGate == Flushed => (last.con <=> AtLeast(last.level, console_threshold))

\* C3's case: a record exactly at the console threshold is printed while file
\* logging is on and the file threshold lies above the record's level.
C3_Witness ==
    /\ Flushed /\ last.con
    /\ last.level = "Debug" /\ console_threshold = "Debug"
    /\ file_logging_enabled /\ file_threshold = "Fixed"

\* C4 (as claimed): print() writes to the file if and only if file logging is
\* enabled and the record's level is at least the file threshold.
C4_FileGate ==
    Flushed => (last.fil <=> (last.was_enabled /\ AtLeast(last.level, file_threshold)))

\* C5: the file handle is open if and only if file logging is enabled and the
\* path is set.
C5_HandleIffEnabled == (log_file # None) <=> (file_logging_enabled /\ log_file_path # None)

\* C5's case: the handle of a second session, open after an earlier session
\* was closed and a record was flushed.
C5_Witness == log_file # None /\ prev # None /\ Flushed

\* C6: the sink starts Disabled; an enable that returns leaves it Enabled (a
\* file exists at its path), a disable leaves it Disabled with the handle
\* closed and returns, from either state; every other operation leaves the
\* sink's state, handle and path as they were.
C6_SinkMachine ==
    /\ ~file_logging_enabled
    /\ [][ /\ (last'.op = "enable_file_logging" /\ last'.ok) =>
                (file_logging_enabled' /\ fs'[log_file_path'[1]] # None)
           /\ (last'.op = "enable_file_logging" /\ ~last'.ok) =>
                (SinkFields' = SinkFields)
           /\ (last'.op = "disable_file_logging") =>
                (~file_logging_enabled' /\ log_file' = None /\ last'.ok)
           /\ (last'.op \notin {"enable_file_logging", "disable_file_logging"}) =>
                (SinkFields' = SinkFields)
         ]_vars

\* C6's case: disable called on a sink that an earlier disable had already
\* closed.
C6_Witness ==
    /\ last.op = "disable_file_logging" /\ ~last.was_enabled
    /\ prev # None /\ ~file_logging_enabled

\* C7: enable_file_logging on an enabled sink changes neither the handle, the
\* path nor any file; what the open handle has written so far is exactly the
\* text flushed since file logging was last off, in order.
C7_EnableTwice ==
    /\ [](log_file # None =>
            SubSeq(fs[log_file[1].path][1], 1, log_file[1].pos) = session)
    /\ [][(last'.op = "enable_file_logging" /\ file_logging_enabled) =>
            (log_file' = log_file /\ log_file_path' = log_file_path /\ fs' = fs)]_vars

\* C7's case: enable was called on an enabled sink whose file already held a
\* line.
C7_Witness ==
    /\ last.op = "enable_file_logging" /\ last.was_enabled
    /\ log_file # None /\ session # ""

\* C8 (as claimed): right after every Disabled-to-Enabled transition the file
\* at log_file_path is empty.
C8_OpenTruncates == Opened => fs[log_file_path[1]] = Some("")

\* C9: when file logging is disabled and enabled again at a later second,
\* the new path differs from the closed session's path, the new file is
\* empty, and the closed session's file holds what it held when it was closed.
C9_RoundTrip ==
    (Opened /\ prev # None /\ prev[1].opened < log_file[1].opened) =>
        /\ log_file_path # Some(prev[1].path)
        /\ fs[log_file_path[1]] = Some("")
        /\ fs[prev[1].path] = Some(prev[1].content)

\* C9's case: a session that wrote a line was closed, the clock moved on, and
\* a new session was opened.
C9_Witness ==
    /\ Opened /\ prev # None
    /\ prev[1].opened < log_file[1].opened
    /\ prev[1].content # ""

\* C10: when open() fails, enable_file_logging does not return normally and
\* leaves enabled = false, no handle and no path; the logger is never enabled
\* without a handle.
C10_OpenFailure ==
    /\ (last.op = "enable_file_logging" /\ last.io = "failed") =>
           (~last.ok /\ ~file_logging_enabled /\ log_file = None /\ log_file_path = None)
    /\ file_logging_enabled => log_file # None

\* C10's case: open() failed on a sink that an earlier session had used.
C10_Witness ==
    /\ last.op = "enable_file_logging" /\ last.io = "failed"
    /\ prev # None


\* What one log_print! call of thread t puts in the buffer: its fragments in
\* order, each followed by one space.
FragmentText(f) ==
    CASE f.macro = "log_str"  -> f.str
      [] f.macro = "log_i32"  -> ToString(f.int)
      [] f.macro = "log_bool" -> (IF f.bool THEN "true" ELSE "false")
      [] f.macro = "log_hex8" -> "0x" \o UpperHex(f.hex)

RECURSIVE CallText(_)
CallText(fs_) == IF fs_ = <<>> THEN "" ELSE FragmentText(Head(fs_)) \o " " \o CallText(Tail(fs_))

\* The console output and the file line of thread t's call, flushed at second c.
CallOnConsole(t, n, c) == ConsoleOutput(timestamp(c), CallLevel(t), CallText(CallFragments(t, n)))
CallInFile(t, n, c) == FileMessage(timestamp(c), CallLevel(t), CallText(CallFragments(t, n)))

RECURSIVE MadeOf(_, _)
\* s is a concatenation of members of the set of texts P
MadeOf(s, P) ==
    \/ s = ""
    \/ \E p \in P :
          /\ Len(p) <= Len(s)
          /\ SubSeq(s, 1, Len(p)) = p
          /\ MadeOf(SubSeq(s, Len(p) + 1, Len(s)), P)

\* C2: under every interleaving of the threads' log_print! calls, the console
\* and every log file consist of whole lines, each holding the level and the
\* fragments, in order, of one single call and nothing of another.
C2_NoInterleaving ==
    LET Started == {<<t, k>> : t \in Threads, k \in 1..MaxCalls}
        Shown == {CallOnConsole(x[1], x[2], c) : x \in Started, c \in 0..clock}
        Written == {CallInFile(x[1], x[2], c) : x \in Started, c \in 0..clock}
    IN  /\ MadeOf(console, Shown)
        /\ \A f \in FileNames : fs[f] # None => MadeOf(fs[f][1], Written)

\* C2's case: both threads made one call each, t2 taking the lock first;
\* both lines are whole on the console and in the file, t2's first.
C2_Witness ==
    /\ console = CallOnConsole("t2", 1, 0) \o CallOnConsole("t1", 1, 0)
    /\ log_file # None
    /\ fs[log_file[1].path] = Some(CallInFile("t2", 1, 0) \o CallInFile("t1", 1, 0))
    /\ calls["t1"] = 1 /\ calls["t2"] = 1


\* C11: when the write to the open log file fails during print(), print()
\* still returns, the buffer is cleared and the level reset to Info, the sink
\* stays enabled with the same handle and path and no file changes, and the
\* console receives exactly what it receives when the write succeeds.
C11_WriteFailure ==
    /\ []((Flushed /\ last.io = "failed") =>
             (last.ok /\ buffer = "" /\ current_level = "Info"))
    /\ [][(last'.op = "print" /\ last'.io = "failed") =>
             /\ file_logging_enabled /\ file_logging_enabled'
             /\ log_file # None /\ log_file' = log_file
             /\ log_file_path' = log_file_path
             /\ fs' = fs
             /\ console' = IF AtLeast(current_level, console_threshold)
                           THEN console \o ConsoleOutput(timestamp(clock), current_level, buffer)
                           ELSE console
             /\ \E t \in Threads : pc[t] = "fragments" /\ pc'[t] = "unlock"
          ]_vars

\* C11's case: the write of a record failed and the same record is on the
\* console.
C11_Witness ==
    /\ Flushed /\ last.io = "failed"
    /\ last.con /\ last.buf # "" /\ console # ""
    /\ log_file # None

Flags == <<use_colors, include_date, use_icons_in_file>>

\* C16: each of set_level, set_console_threshold and set_file_threshold
\* changes its own field and nothing else; print() changes neither threshold,
\* no flag and not the file sink's state; a threshold changes only when its
\* own setter is called.
C16_Frames ==
    [][ /\ (last'.op = "set_level") =>
              UNCHANGED <<buffer, console_threshold, file_threshold, Flags,
                          file_logging_enabled, log_file, log_file_path, env>>
        /\ (last'.op = "set_console_threshold") =>
              UNCHANGED <<buffer, current_level, file_threshold, Flags,
                          file_logging_enabled, log_file, log_file_path, env>>
        /\ (last'.op = "set_file_threshold") =>
              UNCHANGED <<buffer, current_level, console_threshold, Flags,
                          file_logging_enabled, log_file, log_file_path, env>>
        /\ (last'.op = "print") =>
              UNCHANGED <<console_threshold, file_threshold, Flags, SinkFields>>
        /\ (last'.op # "set_console_threshold") => console_threshold' = console_threshold
        /\ (last'.op # "set_file_threshold") => file_threshold' = file_threshold
      ]_vars

\* C16's case: thresholds set earlier (console Error, file Warning) are still
\* in force at a later flush, which keeps a Warning record off the console.
C16_Witness ==
    /\ Flushed /\ last.level = "Warning" /\ ~last.con
    /\ console_threshold = "Error" /\ file_threshold = "Warning"
    /\ file_logging_enabled


\* The level asked for on the record in progress: the argument of the last
\* set_level since the previous print() (or Logger::new), Info without one.
AskedLevel == IF pending.level = None THEN "Info" ELSE pending.level[1]

\* C14: the level print() gates and renders with is the argument of the last
\* set_level made since the previous print() (or since Logger::new()), Info
\* when there was none; after print() no level is left over for the next
\* record.
C14_LevelPerRecord ==
    /\ [](current_level = AskedLevel)
    /\ [][(last'.op = "print") =>
             /\ last'.level = AskedLevel
             /\ console' = IF AtLeast(AskedLevel, console_threshold)
                           THEN console \o ConsoleOutput(timestamp(clock), AskedLevel, buffer)
                           ELSE console
             /\ (last'.fil => session' = session \o FileMessage(timestamp(clock), AskedLevel, buffer))
             /\ pending'.level = None /\ current_level' = "Info"
          ]_vars

\* C14's case: a record flushed at the level Error it was given, printed to
\* the console and the file, after which the level is Info again with no
\* set_level outstanding.
C14_Witness ==
    /\ Flushed /\ last.level = "Error" /\ last.con /\ last.fil
    /\ pending.level = None /\ current_level = "Info"

\* What the caller expects of one fragment, written out by hand.
Rendered(f) ==
    CASE f.op = "append" /\ DOMAIN f.arg = {"str"} -> f.arg.str
      [] f.op = "append" /\ DOMAIN f.arg = {"int"} -> IF f.arg.int = 42 THEN "42" ELSE "?"
      [] f.op = "append_bool" -> IF f.arg THEN "true" ELSE "false"
      [] f.op = "append_hex" -> IF f.arg = 48879 THEN "0xBEEF" ELSE "?"

RECURSIVE Joined(_)
Joined(fs_) == IF fs_ = <<>> THEN "" ELSE Rendered(Head(fs_)) \o " " \o Joined(Tail(fs_))

IsPrefix(a, b) == Len(a) <= Len(b) /\ SubSeq(b, 1, Len(a)) = a

\* C15: between two flushes the buffer only grows; every append, append_bool
\* and append_hex extends it by the rendered fragment and exactly one space,
\* keeping what was there as a prefix; so the text print() emits is the
\* fragments in append order, each followed by one space.
C15_BufferGrows ==
    /\ [](buffer = Joined(pending.frags))
    /\ [][(last'.op \in {"append", "append_bool", "append_hex"}) =>
             /\ Len(pending'.frags) = Len(pending.frags) + 1
             /\ buffer' = buffer \o Rendered(pending'.frags[Len(pending'.frags)]) \o " "
          ]_vars
    /\ [][(last'.op # "print") => IsPrefix(buffer, buffer')]_vars
    /\ [][(last'.op = "print") =>
             /\ last'.buf = Joined(pending.frags)
             /\ console' = console \o ConsoleOutput(timestamp(clock), current_level,
                                                    Joined(pending.frags))
          ]_vars

\* C15's case: the record of tests::test_basic_logging, fragments Hello, 42
\* and true, flushed as 'Hello 42 true '.
C15_Witness ==
    /\ Flushed /\ last.buf = "Hello 42 true " /\ last.con
    /\ buffer = ""

StartsWith(s, p) == Len(p) <= Len(s) /\ SubSeq(s, 1, Len(p)) = p
Rest(s, p) == SubSeq(s, Len(p) + 1, Len(s))

\* The call that took the lock k-th, and its line on the console and in the
\* file when flushed at second c.
Taker(k) == program[order[k][1]][order[k][2]]
TakerOnConsole(k, c) ==
    ConsoleOutput(timestamp(c), Taker(k).level, CallText(Taker(k).frags))
TakerInFile(k, c) ==
    FileMessage(timestamp(c), Taker(k).level, CallText(Taker(k).frags))

RECURSIVE ConsoleInOrder(_, _)
\* s is the console lines of the flushed calls from the k-th lock taker on, in
\* lock order; a call is absent exactly when its level is below the threshold
ConsoleInOrder(s, k) ==
    IF k > flushes THEN s = ""
    ELSE IF ~AtLeast(Taker(k).level, console_threshold) THEN ConsoleInOrder(s, k + 1)
    ELSE \E c \in 0..clock :
            LET line == TakerOnConsole(k, c)
            IN  StartsWith(s, line) /\ ConsoleInOrder(Rest(s, line), k + 1)

RECURSIVE FileInOrder(_, _)
\* s is the file lines of the flushed calls from the k-th lock taker on, in
\* lock order; a call whose write failed is absent
FileInOrder(s, k) ==
    IF k > flushes THEN s = ""
    ELSE \/ FileInOrder(s, k + 1)
         \/ \E c \in 0..clock :
               LET line == TakerInFile(k, c)
               IN  StartsWith(s, line) /\ FileInOrder(Rest(s, line), k + 1)

\* C13: the console and the log file hold the records in the order in which
\* their log_print! calls took the logger lock; the calls of one thread take
\* the lock, and so appear, in the order the thread made them.
C13_LockOrder ==
    /\ flushes <= Len(order)
    /\ ConsoleInOrder(console, 1)
    /\ \A f \in FileNames : fs[f] # None => FileInOrder(fs[f][1], 1)
    /\ \A i, j \in 1..Len(order) :
          (i < j /\ order[i][1] = order[j][1]) => order[i][2] < order[j][2]

\* C13's case: t2 took the lock first, then t1 twice, then t2 again; the four
\* lines are on the console and in the file in that order.
C13_Witness ==
    /\ order = << <<"t2", 1>>, <<"t1", 1>>, <<"t1", 2>>, <<"t2", 2>> >>
    /\ console = CallOnConsole("t2", 1, 0) \o CallOnConsole("t1", 1, 0)
                    \o CallOnConsole("t1", 2, 0) \o CallOnConsole("t2", 2, 0)
    /\ log_file # None
    /\ fs[log_file[1].path] = Some(CallInFile("t2", 1, 0) \o CallInFile("t1", 1, 0)
                                      \o CallInFile("t1", 2, 0) \o CallInFile("t2", 2, 0))

\* How often the value expression of thread t's i-th fragment was evaluated
\* in its current call.
EvalCount(t, i) == Cardinality({k \in 1..Len(evals[t]) : evals[t][k] = i})

\* The fragment macros the claim names as evaluating their expression twice.
TwiceMacros ==
    {"log_i8", "log_i16", "log_i32", "log_i64", "log_u8", "log_u16", "log_u32",
     "log_u64", "log_f32", "log_f64", "log_hex8", "log_hex16", "log_hex32", "log_hex64"}

\* C20: when a log_print! call has flushed, the value expression of each of
\* its width-checked fragments has been evaluated exactly twice and that of
\* every other fragment exactly once, fragment after fragment; an expression
\* is evaluated only by the thread holding the lock, after its set_level and
\* before its print().
C20_Evaluations ==
    /\ [](\A t \in Threads :
             pc[t] = "unlock" =>
                /\ \A i \in 1..Len(Job(t).frags) :
                      EvalCount(t, i) = IF Job(t).frags[i].macro \in TwiceMacros THEN 2 ELSE 1
                /\ \A k \in 1..(Len(evals[t]) - 1) : evals[t][k] <= evals[t][k + 1])
    /\ [][\A t \in Threads :
             (evals'[t] # evals[t]) =>
                \/ pc[t] = "idle" /\ evals'[t] = <<>> /\ lock_owner = None
                \/ /\ lock_owner = Some(t) /\ lock_owner' = Some(t)
                   /\ pc[t] \in {"fragments", "closure"}
                   /\ Len(evals'[t]) = Len(evals[t]) + 1
                   /\ flushes' = flushes
          ]_vars

\* C20's case: t1's call log_print!(Warning, log_str!("A"), log_i32!(1)) has
\* flushed; fragment 1 was evaluated once and fragment 2 twice.
C20_Witness ==
    /\ pc["t1"] = "unlock" /\ last.op = "print"
    /\ evals["t1"] = <<1, 2, 2>>
    /\ last.buf = "A 1 "

\* Thread t's call has run to its last statement and is about to return.
Returning(t, macro) == pc[t] = "unlock" /\ Job(t).macro = macro

\* C17: when log_init!(console, file, enable_file, colors, date, icons)
\* returns, whatever the state before, both thresholds and the three flags
\* equal the arguments and the file sink is enabled exactly if enable_file
\* (with a handle and a path if so, with neither if not); a sink that was
\* already enabled keeps its file; when log_deinit! returns the sink is
\* disabled with no handle and no path.
C17_InitDeinit ==
    /\ [](\A t \in Threads :
             Returning(t, "log_init") =>
                /\ console_threshold = Job(t).console
                /\ file_threshold = Job(t).file
                /\ use_colors = Job(t).colors
                /\ include_date = Job(t).date
                /\ use_icons_in_file = Job(t).icons
                /\ file_logging_enabled = Job(t).enable_file
                /\ IF Job(t).enable_file
                   THEN log_file # None /\ log_file_path = Some(log_file[1].path)
                   ELSE log_file = None /\ log_file_path = None)
    /\ [](\A t \in Threads :
             Returning(t, "log_deinit") =>
                ~file_logging_enabled /\ log_file = None /\ log_file_path = None)
    /\ [][\A t \in Threads :
             (pc[t] = "init_sink" /\ pc'[t] = "unlock"
                 /\ Job(t).enable_file /\ file_logging_enabled) =>
                UNCHANGED <<log_file, log_file_path, fs>>
          ]_vars

\* C17's case: a log_init! with enable_file = true returns on a sink that was
\* enabled before and has a record in its file; the file is kept.
C17_Witness ==
    /\ \E t \in Threads : Returning(t, "log_init") /\ Job(t).enable_file
    /\ last.op = "enable_file_logging" /\ last.was_enabled
    /\ log_file # None /\ fs[log_file[1].path] # Some("")
    /\ console_threshold = "Error" /\ ~use_colors /\ ~include_date /\ use_icons_in_file

\* C18: as long as no call has panicked, whenever no thread holds the logger
\* lock the buffer is empty and the level is Info; and each print() of a
\* log_print! call emits exactly the fragments and the level of that call.
C18_CleanBetweenCalls ==
    /\ []((lock_owner = None /\ ~poisoned) => (buffer = "" /\ current_level = "Info"))
    /\ [][(last'.op = "print") =>
             \E t \in Threads :
                /\ lock_owner = Some(t) /\ pc[t] = "fragments"
                /\ last'.buf = CallText(Job(t).frags)
                /\ last'.level = Job(t).level
                /\ pending.frags # <<>> /\ Len(pending.frags) = Len(Job(t).frags)
          ]_vars

\* C18's case: the lock is free after calls of both threads, among them a
\* log_init!, a log_deinit! and two log_print! calls, and nothing panicked.
C18_Witness ==
    /\ lock_owner = None /\ ~poisoned /\ buffer = ""
    /\ flushes = 2 /\ Len(order) >= 4
    /\ \E i, j \in 1..Len(order) : Taker(i).macro = "log_init" /\ Taker(j).macro = "log_deinit"

\* A thread panicked while it held the guard: a failed open inside
\* log_init!, or a panicking fragment expression inside log_print!.
PanicUnderLock ==
    \/ last.op = "enable_file_logging" /\ ~last.ok
    \/ last.op = "panic"

\* C19: a panic under the lock poisons the mutex; from then on it stays
\* poisoned, every macro call started on any thread panics at
\* lock().unwrap() without touching the logger, and nothing more is written
\* to the console or to any file.
C19_PoisonedForGood ==
    /\ [](PanicUnderLock => poisoned)
    /\ [][poisoned =>
             /\ poisoned'
             /\ console' = console /\ fs' = fs
             /\ UNCHANGED <<logger, lock_owner, pc>>
             /\ \E t \in Threads :
                   /\ calls' = [calls EXCEPT ![t] = @ + 1]
                   /\ last'.op = "lock" /\ ~last'.ok
          ]_vars

\* C19's case: the mutex is poisoned by a failed open in log_init!, and a
\* later call of each thread has panicked at the lock.
C19_Witness ==
    /\ poisoned /\ last.op = "lock" /\ ~last.ok
    /\ \A t \in Threads : calls[t] = Len(program[t])
    /\ Len(order) < 4
    /\ Taker(Len(order)).macro = "log_init"

\* C12: under fair scheduling every macro call a thread has yet to make gets
\* the logger lock, every call holding the lock reaches the end of its block,
\* and the lock is then released, also when a fragment expression makes a
\* logging call itself.
C12_NoBlocking ==
    \A t \in Threads :
        /\ (pc[t] = "idle" /\ calls[t] < Len(program[t])) ~> (lock_owner = Some(t))
        /\ (lock_owner = Some(t)) ~> (pc[t] = "unlock")
        /\ (pc[t] = "unlock") ~> (lock_owner # Some(t))

====
